---- MODULE Spec2Model ----
(***************************************************************************)
(* AnteaCore client: the anonymous session store (anonymous_identity.py),   *)
(* the remote client (client.py), the machine identity (identity.py) and   *)
(* the secure tool dispatcher (mcp_servers/secure_knowledge_server.py).    *)
(*                                                                         *)
(* Time is counted in hours.  A JSON object / Python dict is a record; a   *)
(* missing key is a field that is not in the record's DOMAIN.  Every       *)
(* operation is one action; the value it returns (or the fact that it      *)
(* raised) is left in ret, and the HTTP calls it issued are left in sent.  *)
(***************************************************************************)
EXTENDS Integers, Sequences, FiniteSets, TLC

\* ---------------------------------------------------------------- bounds
\* the clock advances TickHours at a time, at most MaxTicks times
MaxTicks == 4
TickHours == 8
\* number of uuid4 values drawn
MaxSessions == 2
\* cap on the submission counter
MaxCount == 2
\* processes that increment the submission count concurrently
NumProcs == 2

\* ------------------------------------------------------ program constants
\* timedelta(hours=24)
SessionTTLHours == 24

\* ---------------------------------------------------------------- values
EmptyDict == [k \in {} |-> 0]
\* Python None for a value that is otherwise a string
NoneStr == "None"
\* Python None for a value that is otherwise a mapping
NoneVal == [none |-> TRUE]

VARIABLES
    now,         \* datetime.utcnow(), in hours
    file,        \* ~/.anteacore/sessions/current_session.json
    born,        \* born[id]: created_at of the session with the id-th uuid4 drawn
    client,      \* the AnteaCoreClient instance (api_url, privileged_token, httpx headers)
    ret,         \* outcome of the last operation: [op, raised, value]
    sent,        \* HTTP calls issued by the last client operation, in order
    loaded,      \* session returned by the last load_or_create_session since the last clear
    clearedIds,  \* identifiers of the sessions deleted by clear_session
    clearRuns,   \* number of clear_session calls in a row (capped at 2)
    env,         \* what platform / Path.home / getmac / cpuinfo report: the machine factors
    identity,    \* ~/.anteacore/identity.json
    server,      \* the SecureKnowledgeServer instance (api_url, version, machine_id, headers)
    pc,          \* pc[p]: where process p is in its increment_submission_count
    local,       \* local[p]: the session object process p holds
    seen,        \* seen[p]: the submission_count process p found when it loaded (-1: not yet)
    count0,      \* submission_count stored when the concurrent processes start
    perm,        \* permission bits of the session file while the processes run
    setup,       \* the AnteaCoreSetup instance (api_url, machine_id)
    hostConfig,  \* claude_desktop_config.json
    installed,   \* <project>/.anteacore/mcp_servers/secure_knowledge_server.py is in place
    project,     \* <project>/.anteacore/project.json
    gitignore    \* <project>/.gitignore: "absent", or "with" / "without" the line .anteacore/

vars ==
    <<now, file, born, client, ret, sent, loaded, clearedIds, clearRuns,
      env, identity, server, pc, local, seen, count0, perm,
      setup, hostConfig, installed, project, gitignore>>

\* the session store, the clock and the client
storeVars == <<now, file, born, client, loaded, clearedIds, clearRuns>>

\* the machine identity and the dispatcher built on it
machineVars == <<env, identity, server>>

\* the processes that run concurrently
raceVars == <<pc, local, seen, count0, perm>>

\* the setup routine and the files it writes
setupVars == <<setup, hostConfig, installed, project, gitignore>>

\* number of uuid4 values drawn so far
uuids == Len(born)

\* ------------------------------------------------- anonymous_identity.py

\* datetime.isoformat(): the timestamp as text
isoformat(t) == [iso |-> t]

\* datetime.fromisoformat() accepts exactly what isoformat() writes
fromisoformat_ok(v) == DOMAIN v = {"iso"}

fromisoformat(v) == v.iso

\* AnonymousSession.__init__: a fresh uuid4, created now, no submissions
AnonymousSession(id, t) ==
    [session_id |-> id, created_at |-> t, submission_count |-> 0]

to_dict(s) ==
    [session_id |-> s.session_id,
     created_at |-> isoformat(s.created_at),
     submission_count |-> s.submission_count,
     anonymous |-> TRUE,
     expires_at |-> isoformat(s.created_at + SessionTTLHours)]

\* from_dict raises KeyError on a missing session_id / created_at and
\* ValueError on a created_at that is not an ISO timestamp
from_dict_ok(d) ==
    /\ "session_id" \in DOMAIN d
    /\ "created_at" \in DOMAIN d
    /\ fromisoformat_ok(d.created_at)

from_dict(d) ==
    [session_id |-> d.session_id,
     created_at |-> fromisoformat(d.created_at),
     submission_count |->
        IF "submission_count" \in DOMAIN d THEN d.submission_count ELSE 0]

\* a session that already expires when exactly 24 hours old
is_expired_at_ttl(s, t) == t >= s.created_at + SessionTTLHours

\* a session that never expires
is_expired_never(s, t) == FALSE

is_expired(s, t) == t > s.created_at + SessionTTLHours

\* the session file: absent, or present with a text that json.load accepts or not
NoFile == [exists |-> FALSE, json_ok |-> FALSE, data |-> EmptyDict]

JsonFile(d) == [exists |-> TRUE, json_ok |-> TRUE, data |-> d]

GarbledFile == [exists |-> TRUE, json_ok |-> FALSE, data |-> EmptyDict]

\* what happens to the three steps of save_session
DiskOutcomes == {"ok", "open_fails", "write_fails", "chmod_fails"}

\* save_session: open(..., 'w') truncates, json.dump writes, os.chmod follows;
\* an OSError of any step propagates
save_session(s, f, disk) ==
    CASE disk = "ok"          -> [raised |-> FALSE, file |-> JsonFile(to_dict(s))]
      [] disk = "open_fails"  -> [raised |-> TRUE, file |-> f]
      [] disk = "write_fails" -> [raised |-> TRUE, file |-> GarbledFile]
      [] OTHER                -> [raised |-> TRUE, file |-> JsonFile(to_dict(s))]

\* the try block of load_or_create_session returns the stored session
stored_session_usable(f, t) ==
    /\ f.exists
    /\ f.json_ok
    /\ from_dict_ok(f.data)
    /\ ~is_expired(from_dict(f.data), t)

\* load_or_create_session without its "except Exception: pass"
load_or_create_session_reraise(f, t, id, disk) ==
    IF f.exists /\ ~(f.json_ok /\ from_dict_ok(f.data))
    THEN [raised |-> TRUE, session |-> AnonymousSession(id, t), file |-> f, fresh |-> FALSE]
    ELSE IF stored_session_usable(f, t)
    THEN [raised |-> FALSE, session |-> from_dict(f.data), file |-> f, fresh |-> FALSE]
    ELSE LET s == AnonymousSession(id, t)
             w == save_session(s, f, disk)
         IN  [raised |-> w.raised, session |-> s, file |-> w.file, fresh |-> TRUE]

load_or_create_session(f, t, id, disk) ==
    IF stored_session_usable(f, t)
    THEN [raised |-> FALSE, session |-> from_dict(f.data), file |-> f, fresh |-> FALSE]
    ELSE LET s == AnonymousSession(id, t)
             w == save_session(s, f, disk)
         IN  [raised |-> w.raised, session |-> s, file |-> w.file, fresh |-> TRUE]

get_anonymous_headers(session) ==
    ("X-Session-ID" :> session.session_id)
        @@ ("X-Anonymous" :> "true")
        @@ ("X-Client-Version" :> "0.1.0")

\* identifier of the session the file holds, if it holds one
StoredIds(f) ==
    IF f.exists /\ f.json_ok /\ "session_id" \in DOMAIN f.data
    THEN {f.data.session_id} ELSE {}

Returned(op, v) == [op |-> op, raised |-> FALSE, value |-> v]

Raised(op) == [op |-> op, raised |-> TRUE, value |-> NoneVal]

\* a caller invokes load_or_create_session()
LoadOrCreateSession(disk) ==
    /\ LET r == load_or_create_session(file, now, uuids + 1, disk) IN
        /\ r.fresh => uuids < MaxSessions
        /\ file' = r.file
        /\ born' = IF r.fresh THEN Append(born, now) ELSE born
        /\ ret' = IF r.raised THEN Raised("load_or_create_session")
                  ELSE Returned("load_or_create_session", r.session)
        /\ loaded' = IF r.raised THEN loaded ELSE r.session
    /\ clearRuns' = 0
    /\ sent' = <<>>
    /\ UNCHANGED <<now, client, clearedIds, machineVars, setupVars, raceVars>>

\* a counter that advances by two
increment_twice(s) == [s EXCEPT !.submission_count = @ + 2]

\* session.submission_count += 1
increment(s) == [s EXCEPT !.submission_count = @ + 1]

\* a caller invokes increment_submission_count(): load, add one, save
IncrementSubmissionCount(disk1, disk2) ==
    /\ LET r == load_or_create_session(file, now, uuids + 1, disk1)
           s == increment(r.session)
           w == save_session(s, r.file, disk2)
       IN
        /\ r.fresh => uuids < MaxSessions
        /\ r.session.submission_count < MaxCount
        /\ born' = IF r.fresh THEN Append(born, now) ELSE born
        /\ file' = IF r.raised THEN r.file ELSE w.file
        /\ ret' = IF r.raised \/ w.raised THEN Raised("increment_submission_count")
                  ELSE Returned("increment_submission_count", NoneVal)
        /\ loaded' = IF r.raised THEN loaded ELSE r.session
    /\ clearRuns' = 0
    /\ sent' = <<>>
    /\ UNCHANGED <<now, client, clearedIds, machineVars, setupVars, raceVars>>

\* clear_session that leaves the file in place
clear_session_keep(f) == f

\* clear_session: unlink the file if it exists
clear_session(f) == IF f.exists THEN NoFile ELSE f

\* a caller invokes clear_session()
ClearSession ==
    /\ file' = clear_session(file)
    /\ clearedIds' = clearedIds \cup StoredIds(file)
    /\ clearRuns' = IF clearRuns < 2 THEN clearRuns + 1 ELSE 2
    /\ loaded' = NoneVal
    /\ ret' = Returned("clear_session", NoneVal)
    /\ sent' = <<>>
    /\ UNCHANGED <<now, born, client, machineVars, setupVars, raceVars>>

\* wall-clock time passes
Tick ==
    /\ now + TickHours <= MaxTicks * TickHours
    /\ now' = now + TickHours
    /\ UNCHANGED <<file, born, client, ret, sent, loaded, clearedIds, clearRuns, machineVars, setupVars, raceVars>>

\* ---------------------------- anonymous_identity.py, concurrent processes

\* the processes that call increment_submission_count() once, concurrently
Procs == 1..NumProcs

\* what the steps of one process leave alone
raceFrame == <<now, client, ret, sent, loaded, clearedIds, clearRuns, machineVars, setupVars, count0>>

\* load_or_create_session of process p: it reads the file in one go and returns
\* the stored session, or makes a fresh one that it has yet to save
RaceLoad(p) ==
    /\ pc[p] = "idle"
    /\ IF stored_session_usable(file, now)
       THEN /\ local' = [local EXCEPT ![p] = from_dict(file.data)]
            /\ seen' = [seen EXCEPT ![p] = from_dict(file.data).submission_count]
            /\ pc' = [pc EXCEPT ![p] = "loaded"]
            /\ UNCHANGED born
       ELSE /\ uuids < MaxSessions
            /\ local' = [local EXCEPT ![p] = AnonymousSession(uuids + 1, now)]
            /\ seen' = [seen EXCEPT ![p] = 0]
            /\ born' = Append(born, now)
            /\ pc' = [pc EXCEPT ![p] = "create_open"]
    /\ UNCHANGED <<file, perm, raceFrame>>

\* session.submission_count += 1 on the object process p holds
RaceAdd(p) ==
    /\ pc[p] = "loaded"
    /\ local' = [local EXCEPT ![p] = increment(local[p])]
    /\ pc' = [pc EXCEPT ![p] = "open"]
    /\ UNCHANGED <<file, born, seen, perm, raceFrame>>

\* permission bits open() gives a file it creates: 0666 less the umask of the process
CreateModes == {"0600", "0644"}

\* save_session of process p: open(session_file, 'w') truncates the file, or
\* creates it with the bits the umask leaves
RaceOpen(p) ==
    /\ pc[p] \in {"create_open", "open"}
    /\ file' = GarbledFile
    /\ IF file.exists THEN perm' = perm ELSE perm' \in CreateModes
    /\ pc' = [pc EXCEPT ![p] = IF pc[p] = "open" THEN "dump" ELSE "create_dump"]
    /\ UNCHANGED <<local, born, seen, raceFrame>>

\* save_session of process p: json.dump writes the session, the file is closed
RaceDump(p) ==
    /\ pc[p] \in {"create_dump", "dump"}
    /\ file' = JsonFile(to_dict(local[p]))
    /\ pc' = [pc EXCEPT ![p] = IF pc[p] = "dump" THEN "chmod" ELSE "create_chmod"]
    /\ UNCHANGED <<local, born, seen, perm, raceFrame>>

\* save_session of process p: os.chmod(session_file, 0o600)
RaceChmod(p) ==
    /\ pc[p] \in {"create_chmod", "chmod"}
    /\ perm' = "0600"
    /\ pc' = [pc EXCEPT ![p] = IF pc[p] = "chmod" THEN "done" ELSE "loaded"]
    /\ UNCHANGED <<file, local, born, seen, raceFrame>>

\* -------------------------------------------------------------- client.py

\* os.getenv("ANTEACORE_API_URL", ...)
api_url == "https://anteacore-publicapi.up.railway.app"

\* a response arrived: a status and a body that response.json() parses or not
Response(status, d) == [raised |-> FALSE, status |-> status, json_ok |-> TRUE, data |-> d]

NotJson(status) == [raised |-> FALSE, status |-> status, json_ok |-> FALSE, data |-> EmptyDict]

\* the transport failed (connection refused, timeout): httpx raises
ConnectError == [raised |-> TRUE, status |-> 0, json_ok |-> FALSE, data |-> EmptyDict]

\* answers of the server
Responses ==
    { Response(200, [results |-> <<"r1", "r2">>]),
      Response(200, [success |-> TRUE, token |-> "tokB"]),
      Response(200, [success |-> TRUE, token |-> NoneStr]),
      Response(200, [success |-> TRUE]),
      Response(201, [pattern_id |-> "p1", status |-> "pending"]),
      Response(401, [success |-> FALSE, error |-> "invalid secret"]),
      Response(500, [detail |-> "Internal Server Error"]),
      Response(200, [version |-> "1.0"]),
      Response(200, [results |-> <<>>]),
      Response(429, [error |-> "rate limited"]),
      NotJson(200),
      NotJson(500) }

\* the answer of a healthy server to a search
SearchOk == Response(200, [results |-> <<"r1", "r2">>])

HttpOutcomes == {ConnectError} \cup Responses

\* str(e) of the exceptions the operations catch
ErrConnect == "All connection attempts failed"
ErrStatus == "Client or server error response"
ErrJson == "Expecting value: line 1 column 1 (char 0)"
ErrKey == "'token'"
ErrHeader == "Header value must be str or bytes"

\* one HTTP call of self.client: the request as sent and what came back
Call(c, method, path, json, o) ==
    [method |-> method, url |-> <<c.api_url, path>>, headers |-> c.headers,
     json |-> json, at |-> now, outcome |-> o]

\* response.raise_for_status(): httpx raises HTTPStatusError unless 2xx
raise_for_status_raises(o) == ~(o.status >= 200 /\ o.status <= 299)

\* dict.get(key, default)
Get(d, key, default) == IF key \in DOMAIN d THEN d[key] ELSE default

\* an optional argument that is set when truthy
Opt(key, v) == IF v # NoneStr /\ v # "" THEN (key :> v) ELSE EmptyDict

\* AnteaCoreClient.__init__
client_headers(anon, privileged_token) ==
    (anon @@ ("User-Agent" :> "AnteaCore-Client/0.1.0"))
        @@ Opt("X-Privileged-Token", privileged_token)

NoClient ==
    [constructed |-> FALSE, api_url |-> api_url, privileged_token |-> NoneStr,
     headers |-> EmptyDict]

Construct(privileged_token, disk) ==
    /\ LET r == load_or_create_session(file, now, uuids + 1, disk) IN
        /\ r.fresh => uuids < MaxSessions
        /\ file' = r.file
        /\ born' = IF r.fresh THEN Append(born, now) ELSE born
        /\ loaded' = IF r.raised THEN loaded ELSE r.session
        /\ client' =
             IF r.raised THEN client
             ELSE [constructed |-> TRUE, api_url |-> api_url,
                   privileged_token |-> privileged_token,
                   headers |-> client_headers(get_anonymous_headers(r.session),
                                              privileged_token)]
        /\ ret' = IF r.raised THEN Raised("__init__") ELSE Returned("__init__", NoneVal)
    /\ clearRuns' = 0
    /\ sent' = <<>>
    /\ UNCHANGED <<now, clearedIds, machineVars, setupVars, raceVars>>

\* the try/except of the operations that post, raise_for_status and return the body
json_or_error(o) ==
    CASE o.raised                   -> [error |-> ErrConnect]
      [] raise_for_status_raises(o) -> [error |-> ErrStatus]
      [] ~o.json_ok                 -> [error |-> ErrJson]
      [] OTHER                      -> o.data

test_connection(o) ==
    CASE o.raised        -> [success |-> FALSE, error |-> ErrConnect]
      [] o.status # 200  -> [success |-> FALSE, error |-> <<"Server returned", o.status>>]
      [] ~o.json_ok      -> [success |-> FALSE, error |-> ErrJson]
      [] OTHER           -> [success |-> TRUE, server |-> api_url,
                             version |-> Get(o.data, "version", "Unknown")]

\* self.client.headers[...] = value: httpx accepts text only, not null
header_value_ok(v) == v # NoneStr

\* activate_privileged_mode: the result, and whether the token is taken over
activation_succeeds(o) ==
    /\ ~o.raised
    /\ o.status = 200
    /\ o.json_ok
    /\ Get(o.data, "success", FALSE) = TRUE
    /\ "token" \in DOMAIN o.data

activate_privileged_mode(o) ==
    CASE o.raised      -> [error |-> ErrConnect]
      [] ~o.json_ok    -> [error |-> ErrJson]
      [] o.status = 200 /\ Get(o.data, "success", FALSE) = TRUE
                       /\ "token" \notin DOMAIN o.data
                       -> [error |-> ErrKey]
      [] o.status = 200 /\ Get(o.data, "success", FALSE) = TRUE
                       /\ ~header_value_ok(o.data.token)
                       -> [error |-> ErrHeader]
      [] OTHER         -> o.data

search_params(query, category, language, limit) ==
    ([query |-> query, limit |-> limit] @@ Opt("category", category))
        @@ Opt("language", language)

search_knowledge(o) == json_or_error(o)

\* report_issue with raise_for_status() applied to the submit response
report_issue_strict(o1, o2) ==
    IF o2.raised THEN [error |-> ErrConnect]
    ELSE IF raise_for_status_raises(o2) THEN [error |-> ErrStatus]
    ELSE [existing_solutions |-> Get(search_knowledge(o1), "results", <<>>),
          issue_reported |-> o2.status \in {200, 201}]

\* report_issue: the search outcome o1, then the submit outcome o2
report_issue(o1, o2) ==
    IF o2.raised THEN [error |-> ErrConnect]
    ELSE [existing_solutions |-> Get(search_knowledge(o1), "results", <<>>),
          issue_reported |-> o2.status \in {200, 201}]

\* an operation of the constructed client that touches neither the client nor the store
ClientOp(op, calls, value) ==
    /\ client.constructed
    /\ sent' = calls
    /\ ret' = Returned(op, value)
    /\ clearRuns' = 0
    /\ UNCHANGED <<now, file, born, client, loaded, clearedIds, machineVars, setupVars, raceVars>>

TestConnection(O) ==
    \E o \in O :
        ClientOp("test_connection",
                 <<Call(client, "GET", "/api/client/health", NoneVal, o)>>,
                 test_connection(o))

\* the client after activate_privileged_mode: self.privileged_token is assigned
\* first, then the header, which raises on a token that is no text
activated(c, o) ==
    CASE activation_succeeds(o) /\ header_value_ok(o.data.token)
           -> [c EXCEPT !.privileged_token = o.data.token,
                        !.headers = ("X-Privileged-Token" :> o.data.token) @@ @]
      [] activation_succeeds(o)
           -> [c EXCEPT !.privileged_token = o.data.token]
      [] OTHER -> c

ActivatePrivilegedMode(O) ==
    \E o \in O, secret \in {"s3cret"} :
        /\ client.constructed
        /\ sent' = <<Call(client, "POST", "/api/client/privileged/activate",
                          [secret |-> secret], o)>>
        /\ ret' = Returned("activate_privileged_mode", activate_privileged_mode(o))
        /\ client' = activated(client, o)
        /\ clearRuns' = 0
        /\ UNCHANGED <<now, file, born, loaded, clearedIds, machineVars, setupVars, raceVars>>

SearchKnowledge(O) ==
    \E o \in O :
        ClientOp("search_knowledge",
                 <<Call(client, "POST", "/api/client/knowledge/search",
                        search_params("q", NoneStr, NoneStr, 10), o)>>,
                 search_knowledge(o))

AddPattern(O) ==
    \E o \in O :
        ClientOp("add_pattern",
                 <<Call(client, "POST", "/api/client/knowledge/patterns",
                        [name |-> "n", category |-> "c", problem |-> "p",
                         solution |-> "s", source |-> "client_contribution",
                         created_at |-> isoformat(now)], o)>>,
                 json_or_error(o))

GetSuggestions(O) ==
    \E o \in O :
        ClientOp("get_suggestions",
                 <<Call(client, "POST", "/api/client/knowledge/suggest",
                        [context |-> "ctx"], o)>>,
                 json_or_error(o))

\* report_issue that submits only when its search went through
ReportIssueGated(O) ==
    \E o1 \in O, o2 \in O :
        ClientOp("report_issue",
                 IF o1.raised
                 THEN <<Call(client, "POST", "/api/client/knowledge/search",
                             search_params("broken", "troubleshooting", NoneStr, 10), o1)>>
                 ELSE <<Call(client, "POST", "/api/client/knowledge/search",
                             search_params("broken", "troubleshooting", NoneStr, 10), o1),
                        Call(client, "POST", "/api/client/issues",
                             [issue |-> "broken", reported_at |-> isoformat(now)], o2)>>,
                 report_issue(o1, o2))

ReportIssue(O) ==
    \E o1 \in O, o2 \in O :
        ClientOp("report_issue",
                 <<Call(client, "POST", "/api/client/knowledge/search",
                        search_params("broken", "troubleshooting", NoneStr, 10), o1),
                   Call(client, "POST", "/api/client/issues",
                        [issue |-> "broken", reported_at |-> isoformat(now)], o2)>>,
                 report_issue(o1, o2))

GetStats(O) ==
    \E o \in O :
        ClientOp("get_stats",
                 <<Call(client, "GET", "/api/client/stats", NoneVal, o)>>,
                 json_or_error(o))

\* -------------------------------------------------------------- mcp_wrapper.py

\* client = AnteaCoreClient(): no privileged token, the headers of the session
own_client(session) ==
    [constructed |-> TRUE, api_url |-> api_url, privileged_token |-> NoneStr,
     headers |-> client_headers(get_anonymous_headers(session), NoneStr)]

\* the tools callers ask quick_mcp_call for
QuickTools ==
    {"search", "validate_pattern", "add_pattern", "get_suggestions", "report_issue"}

\* quick_mcp_call once its client c is built: the tool is mapped to a client
\* operation, or refused as unknown
quick_mcp_call(c, tool, o1, o2) ==
    CASE tool = "search" ->
           [value |-> search_knowledge(o1),
            calls |-> <<Call(c, "POST", "/api/client/knowledge/search",
                             search_params("react hooks", NoneStr, NoneStr, 3), o1)>>]
      [] tool = "add_pattern" ->
           [value |-> json_or_error(o1),
            calls |-> <<Call(c, "POST", "/api/client/knowledge/patterns",
                             [name |-> "n", category |-> "c", problem |-> "p",
                              solution |-> "s", source |-> "client_contribution",
                              created_at |-> isoformat(now)], o1)>>]
      [] tool = "get_suggestions" ->
           [value |-> json_or_error(o1),
            calls |-> <<Call(c, "POST", "/api/client/knowledge/suggest",
                             [context |-> "ctx"], o1)>>]
      [] tool = "report_issue" ->
           [value |-> report_issue(o1, o2),
            calls |-> <<Call(c, "POST", "/api/client/knowledge/search",
                             search_params("broken", "troubleshooting", NoneStr, 10), o1),
                        Call(c, "POST", "/api/client/issues",
                             [issue |-> "broken", reported_at |-> isoformat(now)], o2)>>]
      [] OTHER ->
           [value |-> [error |-> <<"Unknown tool", tool>>], calls |-> <<>>]

\* a caller invokes quick_mcp_call(server, tool, params): for the server
\* anteacore-knowledge a client is built, which loads or creates the session
QuickMcpCall(O) ==
    \E srv \in {"anteacore-knowledge", "anteacore-admin"}, tool \in QuickTools,
       o1 \in O, o2 \in O :
        LET r == load_or_create_session(file, now, uuids + 1, "ok")
            q == quick_mcp_call(own_client(r.session), tool, o1, o2)
        IN  IF srv = "anteacore-knowledge"
            THEN /\ r.fresh => uuids < MaxSessions
                 /\ file' = r.file
                 /\ born' = IF r.fresh THEN Append(born, now) ELSE born
                 /\ loaded' = r.session
                 /\ clearRuns' = 0
                 /\ sent' = q.calls
                 /\ ret' = [op |-> "quick_mcp_call", raised |-> FALSE, value |-> q.value,
                            server |-> srv, tool |-> tool]
                 /\ UNCHANGED <<now, client, clearedIds, machineVars, setupVars, raceVars>>
            ELSE /\ sent' = <<>>
                 /\ ret' = [op |-> "quick_mcp_call", raised |-> FALSE,
                            value |-> [error |-> <<"Unknown server", srv>>],
                            server |-> srv, tool |-> tool]
                 /\ UNCHANGED <<storeVars, machineVars, setupVars, raceVars>>

\* ------------------------------------------------------------ identity.py

\* machine factors: a machine, the same machine renamed, and the machine
\* with getmac installed
EnvA ==
    [node |-> "hostA", machine |-> "x86_64", processor |-> "i7", system |-> "Linux",
     release |-> "6.1", home |-> "/home/u"]

EnvB == [EnvA EXCEPT !.node = "hostB"]

EnvAMac == EnvA @@ [mac |-> "aa:bb:cc:dd:ee:ff"]

Envs == {EnvA, EnvB, EnvAMac}

\* sorted(factors.items()): the factor names in sorted order
SortedFactorNames ==
    <<"cpu_brand", "home", "mac", "machine", "node", "processor", "release", "system">>

\* '|'.join(f"{k}:{v}" for k, v in sorted(factors.items()))
factor_string(factors) ==
    LET ks == SelectSeq(SortedFactorNames, LAMBDA k : k \in DOMAIN factors)
    IN  [i \in 1..Len(ks) |-> <<ks[i], factors[ks[i]]>>]

\* hashlib.sha256(...).hexdigest(): one digest per text
sha256(text) == [sha256 |-> text]

\* str(uuid.UUID(machine_hash[:32]))
generate_machine_id(factors) == [uuid |-> sha256(factor_string(factors))]

\* load_identity: None when the file is absent or json.load raises
load_identity(f) == IF f.exists /\ f.json_ok THEN f.data ELSE NoneVal

\* save_identity: json.dump of the identity
save_identity(id) == JsonFile(id)

\* "if identity and 'machine_id' in identity" and the stored id still matches
stored_identity_current(f, factors) ==
    LET id == load_identity(f) IN
        /\ id # NoneVal
        /\ "machine_id" \in DOMAIN id
        /\ id.machine_id = generate_machine_id(factors)

\* ensure_machine_identity: the identity returned and the file left behind
ensure_machine_identity(f, factors, t) ==
    IF stored_identity_current(f, factors)
    THEN [identity |-> load_identity(f), file |-> f]
    ELSE LET id == [machine_id |-> generate_machine_id(factors),
                    created_at |-> isoformat(t),
                    version |-> "0.1.0",
                    factors |-> factors,
                    anonymous |-> TRUE]
         IN  [identity |-> id, file |-> save_identity(id)]

\* an identity file written on a machine with the given factors
IdentityFile(factors) == ensure_machine_identity(NoFile, factors, 0).file

\* a caller invokes get_machine_id()
GetMachineId ==
    /\ LET r == ensure_machine_identity(identity, env, now) IN
        /\ identity' = r.file
        /\ ret' = Returned("get_machine_id", r.identity.machine_id)
    /\ sent' = <<>>
    /\ UNCHANGED <<env, server, storeVars, setupVars, raceVars>>

\* the machine is reconfigured (renamed, a package installed)
Reconfigure ==
    /\ \E e \in Envs \ {env} : env' = e
    /\ ret' = Returned("reconfigure", NoneVal)
    /\ sent' = <<>>
    /\ UNCHANGED <<identity, server, storeVars, setupVars, raceVars>>

\* ------------------------------------- mcp_servers/secure_knowledge_server.py

\* len(value.strip()) < 20 for problem and solution
MinQualityLen == 20
\* len(value) > 10000
MaxFieldLen == 10000
\* len(args.get('issue', '').strip()) < 10
MinIssueLen == 10
\* min(args.get('limit', 10), 50)
MaxSearchLimit == 50
\* min(args.get('limit', 10), 100)
MaxContributionsLimit == 100
\* "problem": {"type": "string", "minLength": 20}
SchemaMinProblem == 20
\* "solution": {"type": "string", "minLength": 30}
SchemaMinSolution == 30

\* argument values: a string of len characters, stripped of which remain;
\* an integer; null
Str(len, stripped) == [type |-> "str", len |-> len, stripped |-> stripped]

Num(n) == [type |-> "int", v |-> n]

Null == [type |-> "null"]

\* isinstance(value, str)
is_str(v) == v.type = "str"

\* bool(value)
truthy(v) ==
    CASE v.type = "str" -> v.len > 0
      [] v.type = "int" -> v.v # 0
      [] OTHER          -> FALSE

\* an allow-list that also names get_stats
ALLOWED_TOOLS_with_stats ==
    {"search_knowledge", "add_pattern", "report_issue", "get_suggestions",
     "validate_pattern", "get_my_contributions", "get_stats"}

ALLOWED_TOOLS ==
    {"search_knowledge", "add_pattern", "report_issue", "get_suggestions",
     "validate_pattern", "get_my_contributions"}

\* os.getenv("ANTEACORE_API_URL", "https://api.anteacore.com")
server_api_url == "https://api.anteacore.com"

NoServer ==
    [constructed |-> FALSE, api_url |-> server_api_url, version |-> "0.1.0",
     project_dir |-> "/home/u/project", machine_id |-> NoneVal, headers |-> EmptyDict]

\* _load_machine_id raises RuntimeError on a missing file, json.load raises on
\* a file that is no JSON, identity['machine_id'] raises KeyError
load_machine_id_ok(f) == f.exists /\ f.json_ok /\ "machine_id" \in DOMAIN f.data

\* SecureKnowledgeServer.__init__
SecureKnowledgeServer(f) ==
    [constructed |-> TRUE, api_url |-> server_api_url, version |-> "0.1.0",
     project_dir |-> "/home/u/project", machine_id |-> f.data.machine_id,
     headers |-> ("X-Machine-ID" :> f.data.machine_id)
                    @@ ("X-Client-Version" :> "0.1.0")
                    @@ ("User-Agent" :> "AnteaCore-Client/0.1.0")]

\* a constructor that goes on without an identity file
ServerConstructLenient ==
    /\ server' = IF load_machine_id_ok(identity) THEN SecureKnowledgeServer(identity)
                 ELSE [NoServer EXCEPT !.constructed = TRUE]
    /\ ret' = Returned("SecureKnowledgeServer", NoneVal)
    /\ sent' = <<>>
    /\ UNCHANGED <<env, identity, storeVars, setupVars, raceVars>>

\* server = SecureKnowledgeServer()
ServerConstruct ==
    /\ server' = IF load_machine_id_ok(identity) THEN SecureKnowledgeServer(identity)
                 ELSE server
    /\ ret' = IF load_machine_id_ok(identity) THEN Returned("SecureKnowledgeServer", NoneVal)
              ELSE Raised("SecureKnowledgeServer")
    /\ sent' = <<>>
    /\ UNCHANGED <<env, identity, storeVars, setupVars, raceVars>>

\* the arguments of a tool call are a mapping, or None
is_mapping(a) == a # Null

\* what a handler hands back: a result, or an exception, and the calls it made
Result(v, calls) == [raised |-> FALSE, result |-> v, calls |-> calls]

Raise(exc, calls) == [raised |-> TRUE, result |-> [exception |-> exc], calls |-> calls]

\* str(e) of the exceptions the handlers catch
ErrType == "'<' not supported between instances"
ErrAttribute == "object has no attribute"

\* a GET of self.client with query parameters
CallGet(c, path, params, o) ==
    [method |-> "GET", url |-> <<c.api_url, path>>, headers |-> c.headers,
     json |-> NoneVal, params |-> params, at |-> now, outcome |-> o]

\* the order in which a caller lists the fields of its arguments
FieldOrder ==
    <<"name", "category", "problem", "solution", "code_example", "language", "tags",
      "machine_id", "client_version", "ip_hash">>

\* length checks that know no minimum
content_bad_only_long(field, v) == is_str(v) /\ v.len > MaxFieldLen

\* a string field that fails the length checks of _validate_content
content_bad(field, v) ==
    /\ is_str(v)
    /\ \/ field \in {"problem", "solution"} /\ v.stripped < MinQualityLen
       \/ v.len > MaxFieldLen

content_msg(field, v) ==
    IF field \in {"problem", "solution"} /\ v.stripped < MinQualityLen
    THEN <<field, "is too short or low quality">>
    ELSE <<field, "is too long">>

\* a required field that is present but empty
required_empty(data, field) ==
    /\ field \in DOMAIN data
    /\ \/ ~truthy(data[field])
       \/ is_str(data[field]) /\ data[field].stripped = 0

\* _validate_content: (is_valid, error_msg)
validate_content(data) ==
    LET bad == SelectSeq(FieldOrder,
                         LAMBDA k : k \in DOMAIN data /\ content_bad(k, data[k]))
        empty == SelectSeq(<<"name", "category", "problem", "solution">>,
                           LAMBDA k : required_empty(data, k))
    IN  CASE bad # <<>>   -> [is_valid |-> FALSE,
                              error_msg |-> content_msg(Head(bad), data[Head(bad)])]
          [] empty # <<>> -> [is_valid |-> FALSE,
                              error_msg |-> <<Head(empty), "cannot be empty">>]
          [] OTHER        -> [is_valid |-> TRUE, error_msg |-> <<>>]

\* _get_ip_hash: sha256 of machine id and today's date, 16 hex digits of it
get_ip_hash(srv) == [sha256_16 |-> <<srv.machine_id, now \div 24>>]

\* min(args.get('limit', 10), cap): TypeError unless the limit is a number
limit_ok(args) == Get(args, "limit", Num(10)).type = "int"

capped_limit(args, cap) ==
    LET l == Get(args, "limit", Num(10)) IN Num(IF l.v < cap THEN l.v ELSE cap)

handle_search_knowledge(srv, args, o) ==
    CASE ~is_mapping(args) -> Result([error |-> <<"Search error", ErrAttribute>>], <<>>)
      [] ~limit_ok(args)   -> Result([error |-> <<"Search error", ErrType>>], <<>>)
      [] OTHER ->
           LET body == ("limit" :> capped_limit(args, MaxSearchLimit)) @@ args
               calls == <<Call(srv, "POST", "/api/client/knowledge/search", body, o)>>
           IN  CASE o.raised       -> Result([error |-> <<"Search error", ErrConnect>>], calls)
                 [] o.status # 200 -> Result([error |-> <<"Search failed", o.status>>], calls)
                 [] ~o.json_ok     -> Result([error |-> <<"Search error", ErrJson>>], calls)
                 [] OTHER          -> Result(o.data, calls)

\* metadata that gives way to keys of the same name in args
pattern_data_caller_wins(srv, args) ==
    args @@
    [machine_id |-> srv.machine_id,
     client_version |-> srv.version,
     ip_hash |-> get_ip_hash(srv),
     project_context |-> [directory |-> "project", timestamp |-> isoformat(now)]]

\* the metadata handle_add_pattern adds; its keys override those of args
pattern_data(srv, args) ==
    [machine_id |-> srv.machine_id,
     client_version |-> srv.version,
     ip_hash |-> get_ip_hash(srv),
     project_context |-> [directory |-> "project", timestamp |-> isoformat(now)]]
        @@ args

\* a result that does not tell 429 from the other failures
add_pattern_result_no_rate_limit(o) ==
    CASE o.raised -> [error |-> <<"Error adding pattern", ErrConnect>>]
      [] o.status \in {200, 201} /\ ~o.json_ok
                  -> [error |-> <<"Error adding pattern", ErrJson>>]
      [] o.status \in {200, 201}
                  -> [success |-> TRUE,
                      pattern_id |-> Get(o.data, "pattern_id", NoneStr),
                      message |-> "Pattern submitted successfully",
                      status |-> Get(o.data, "status", "pending_review")]
      [] OTHER    -> [error |-> <<"Failed to add pattern", o.status>>,
                      code |-> "API_ERROR"]

\* the result of handle_add_pattern once the POST has been answered
add_pattern_result(o) ==
    CASE o.raised -> [error |-> <<"Error adding pattern", ErrConnect>>]
      [] o.status \in {200, 201} /\ ~o.json_ok
                  -> [error |-> <<"Error adding pattern", ErrJson>>]
      [] o.status \in {200, 201}
                  -> [success |-> TRUE,
                      pattern_id |-> Get(o.data, "pattern_id", NoneStr),
                      message |-> "Pattern submitted successfully",
                      status |-> Get(o.data, "status", "pending_review")]
      [] o.status = 429
                  -> [error |-> "Rate limit exceeded. Please try again later.",
                      code |-> "RATE_LIMIT"]
      [] OTHER    -> [error |-> <<"Failed to add pattern", o.status>>,
                      code |-> "API_ERROR"]

handle_add_pattern(srv, args, o) ==
    CASE ~is_mapping(args)
           -> Result([error |-> <<"Error adding pattern", ErrAttribute>>], <<>>)
      [] ~validate_content(args).is_valid
           -> Result([error |-> validate_content(args).error_msg,
                      code |-> "VALIDATION_ERROR"], <<>>)
      [] OTHER
           -> Result(add_pattern_result(o),
                     <<Call(srv, "POST", "/api/client/knowledge/patterns",
                            pattern_data(srv, args), o)>>)

\* the data handle_report_issue posts
issue_data(srv, args) ==
    [machine_id |-> srv.machine_id, reported_at |-> isoformat(now)] @@ args

handle_report_issue(srv, args, o) ==
    CASE ~is_mapping(args)
           -> Result([error |-> <<"Error reporting issue", ErrAttribute>>], <<>>)
      [] ~is_str(Get(args, "issue", Str(0, 0)))
           -> Result([error |-> <<"Error reporting issue", ErrAttribute>>], <<>>)
      [] Get(args, "issue", Str(0, 0)).stripped < MinIssueLen
           -> Result([error |-> "Issue description too short"], <<>>)
      [] OTHER ->
           LET calls == <<Call(srv, "POST", "/api/client/issues", issue_data(srv, args), o)>>
           IN  CASE o.raised
                      -> Result([error |-> <<"Error reporting issue", ErrConnect>>], calls)
                 [] o.status \notin {200, 201}
                      -> Result([error |-> <<"Failed to report issue", o.status>>], calls)
                 [] ~o.json_ok
                      -> Result([error |-> <<"Error reporting issue", ErrJson>>], calls)
                 [] OTHER -> Result(o.data, calls)

handle_get_my_contributions(srv, args, o) ==
    CASE ~is_mapping(args)
           -> Result([error |-> <<"Error getting contributions", ErrAttribute>>], <<>>)
      [] ~limit_ok(args)
           -> Result([error |-> <<"Error getting contributions", ErrType>>], <<>>)
      [] OTHER ->
           LET calls == <<CallGet(srv, "/api/client/contributions",
                                  [limit |-> capped_limit(args, MaxContributionsLimit)], o)>>
           IN  CASE o.raised
                      -> Result([error |-> <<"Error getting contributions", ErrConnect>>],
                                calls)
                 [] o.status # 200
                      -> Result([error |-> "Failed to get contributions"], calls)
                 [] ~o.json_ok
                      -> Result([error |-> <<"Error getting contributions", ErrJson>>],
                                calls)
                 [] OTHER -> Result(o.data, calls)

\* a dispatcher that hands the caller's arguments to the search as they are
dispatch_passing_arguments(srv, name, arguments, o) ==
    CASE name = "add_pattern"  -> handle_add_pattern(srv, arguments, o)
      [] name = "report_issue" -> handle_report_issue(srv, arguments, o)
      [] name = "get_my_contributions" -> handle_get_my_contributions(srv, arguments, o)
      [] OTHER -> handle_search_knowledge(srv, arguments, o)

\* the try block of handle_call_tool for an allowed tool
dispatch(srv, name, arguments, o) ==
    CASE name = "search_knowledge" -> handle_search_knowledge(srv, arguments, o)
      [] name = "add_pattern"      -> handle_add_pattern(srv, arguments, o)
      [] name = "report_issue"     -> handle_report_issue(srv, arguments, o)
      [] name = "get_suggestions" ->
           IF ~is_mapping(arguments) THEN Raise(ErrAttribute, <<>>)
           ELSE handle_search_knowledge(
                    srv, [query |-> Get(arguments, "context", Str(0, 0)), limit |-> Num(5)], o)
      [] name = "validate_pattern" ->
           IF ~is_mapping(arguments) THEN Raise(ErrAttribute, <<>>)
           ELSE handle_search_knowledge(
                    srv,
                    [query |-> Get(arguments, "pattern_description", Str(0, 0)),
                     limit |-> Num(3)], o)
      [] name = "get_my_contributions" -> handle_get_my_contributions(srv, arguments, o)
      [] OTHER -> Result([error |-> <<"Tool not implemented", name>>], <<>>)

\* handle_call_tool without its try / except
handle_call_tool_no_except(srv, name, arguments, o) ==
    IF name \notin ALLOWED_TOOLS
    THEN Result([error |-> <<"Tool is not allowed for client access", name>>,
                 allowed_tools |-> ALLOWED_TOOLS], <<>>)
    ELSE dispatch(srv, name, arguments, o)

handle_call_tool(srv, name, arguments, o) ==
    IF name \notin ALLOWED_TOOLS
    THEN Result([error |-> <<"Tool is not allowed for client access", name>>,
                 allowed_tools |-> ALLOWED_TOOLS], <<>>)
    ELSE LET d == dispatch(srv, name, arguments, o) IN
         IF d.raised
         THEN Result([error |-> <<"Tool execution failed", d.result.exception>>,
                      tool |-> name], d.calls)
         ELSE d

\* a field of the arguments, or no such key
Absent == [type |-> "absent"]

Field(k, v) == IF v = Absent THEN EmptyDict ELSE (k :> v)

\* arguments of add_pattern that satisfy the input schema
ValidPattern ==
    [name |-> Str(8, 8), category |-> Str(7, 7), problem |-> Str(40, 40),
     solution |-> Str(40, 40)]

\* arguments a caller may pass to add_pattern: keys left out, strings short,
\* padded, empty or huge, values of the wrong type, a forged machine_id, None
AddPatternArguments ==
    { Field("name", n) @@ Field("category", Str(7, 7)) @@ Field("problem", pr)
          @@ Field("solution", so) :
        n \in {Absent, Str(8, 8), Str(0, 0), Str(3, 0)},
        pr \in {Absent, Str(5, 5), Str(25, 19), Str(20, 20), Str(10001, 10001), Num(5)},
        so \in {Absent, Str(19, 19), Str(25, 25), Str(30, 30)} }
      \cup { Field("name", Str(8, 8)) @@ Field("problem", Str(40, 40))
                 @@ Field("solution", Str(40, 40)),
             ValidPattern @@ ("machine_id" :> Str(36, 36)),
             ValidPattern @@ [machine_id |-> Str(36, 36), client_version |-> Str(5, 5),
                              ip_hash |-> Str(16, 16)],
             ValidPattern,
             Null }

SearchArguments ==
    { Field("query", q) @@ Field("limit", l) :
        q \in {Absent, Str(5, 5)},
        l \in {Absent, Num(5), Num(80), Str(1, 1), Null} }
      \cup {Null}

ReportIssueArguments ==
    { Field("issue", i) @@ Field("severity", Str(6, 6)) :
        i \in {Absent, Str(5, 5), Str(12, 9), Str(15, 15), Num(5), Null} }
      \cup {EmptyDict, Null,
            [issue |-> Str(15, 15), machine_id |-> Str(36, 36),
             reported_at |-> Str(19, 19)]}

SuggestionArguments ==
    {EmptyDict, [context |-> Str(5, 5)], [context |-> Str(12, 12), limit |-> Num(40)], Null}

ValidateArguments ==
    {EmptyDict, [pattern_description |-> Str(30, 30)],
     [pattern_description |-> Str(30, 30), category |-> Str(7, 7)], Null}

ContributionsArguments ==
    { Field("limit", l) : l \in {Absent, Num(5), Num(200), Str(1, 1)} } \cup {Null}

\* every invocation of the dispatcher considered: the six tools and tools
\* that are not offered
Invocations ==
    { [name |-> "add_pattern", arguments |-> a] : a \in AddPatternArguments }
      \cup { [name |-> "search_knowledge", arguments |-> a] : a \in SearchArguments }
      \cup { [name |-> "report_issue", arguments |-> a] : a \in ReportIssueArguments }
      \cup { [name |-> "get_suggestions", arguments |-> a] : a \in SuggestionArguments }
      \cup { [name |-> "validate_pattern", arguments |-> a] : a \in ValidateArguments }
      \cup { [name |-> "get_my_contributions", arguments |-> a] :
               a \in ContributionsArguments }
      \cup { [name |-> n, arguments |-> EmptyDict] :
               n \in {"delete_pattern", "get_stats", "update_pattern"} }

\* a few invocations: one accepted and one refused per kind
FewInvocations ==
    { [name |-> "add_pattern", arguments |-> ValidPattern],
      [name |-> "add_pattern", arguments |-> [problem |-> Str(5, 5)]],
      [name |-> "search_knowledge", arguments |-> [query |-> Str(5, 5)]],
      [name |-> "search_knowledge", arguments |-> [limit |-> Str(1, 1)]],
      [name |-> "report_issue", arguments |-> [issue |-> Str(15, 15)]],
      [name |-> "report_issue", arguments |-> [issue |-> Str(5, 5)]],
      [name |-> "get_suggestions", arguments |-> [context |-> Str(5, 5)]],
      [name |-> "get_suggestions", arguments |-> Null],
      [name |-> "validate_pattern", arguments |-> EmptyDict],
      [name |-> "get_my_contributions", arguments |-> EmptyDict],
      [name |-> "delete_pattern", arguments |-> EmptyDict] }

\* answers of the API to the dispatcher
ServerOutcomes ==
    { ConnectError,
      Response(200, [results |-> <<"r1", "r2">>]),
      Response(201, [pattern_id |-> "p1", status |-> "pending"]),
      Response(200, [pattern_id |-> "p2"]),
      Response(429, [error |-> "rate limited"]),
      Response(500, [detail |-> "Internal Server Error"]),
      NotJson(200),
      NotJson(500) }

\* answers of four kinds: no answer, success, failure, a body that is no JSON
FewOutcomes ==
    {ConnectError, SearchOk, Response(500, [detail |-> "Internal Server Error"]), NotJson(200)}

\* the MCP host calls handle_call_tool(name, arguments); the API answers with one of O
CallTool(O, A) ==
    /\ server.constructed
    /\ \E inv \in A, o \in O :
         LET r == handle_call_tool(server, inv.name, inv.arguments, o) IN
            /\ sent' = r.calls
            /\ ret' = [op |-> "handle_call_tool", raised |-> r.raised, value |-> r.result,
                       tool |-> inv.name, arguments |-> inv.arguments,
                       caught |-> /\ inv.name \in ALLOWED_TOOLS
                                  /\ dispatch(server, inv.name, inv.arguments, o).raised]
    /\ UNCHANGED <<machineVars, storeVars, setupVars, raceVars>>

\* ----------------------------------------------------------------- setup.py

\* AnteaCoreSetup.__init__: the production API, no machine_id attribute yet
NoSetup == [api_url |-> "https://api.anteacore.com", machine_id |-> NoneVal]

\* Path.cwd(), where the setup command is run
project_dir == "/home/u/project"

\* mcp_dir / "secure_knowledge_server.py"
server_path == <<project_dir, ".anteacore/mcp_servers/secure_knowledge_server.py">>

\* setup_machine_identity: ensure_machine_identity() and self.machine_id = identity['machine_id']
setup_machine_identity(stp, f, factors, t) ==
    LET r == ensure_machine_identity(f, factors, t) IN
        [ok |-> TRUE, file |-> r.file,
         setup |-> [stp EXCEPT !.machine_id = r.identity.machine_id]]

\* the health check of the setup: requests.get with its own two headers
HealthCall(stp, o) ==
    [method |-> "GET", url |-> <<stp.api_url, "/api/client/health">>,
     headers |-> ("X-Machine-ID" :> stp.machine_id)
                    @@ ("User-Agent" :> "AnteaCore-Client/0.1.0"),
     json |-> NoneVal, at |-> now, outcome |-> o]

\* a network verification that reports success whatever came back
verify_network_access_always(stp, o) ==
    IF stp.machine_id = NoneVal THEN [ok |-> FALSE, calls |-> <<>>]
    ELSE [ok |-> TRUE, calls |-> <<HealthCall(stp, o)>>]

\* verify_network_access: True on status 200; False on any other status and on
\* any exception (the transport failing, self.machine_id not set)
verify_network_access(stp, o) ==
    IF stp.machine_id = NoneVal THEN [ok |-> FALSE, calls |-> <<>>]
    ELSE [ok |-> ~o.raised /\ o.status = 200, calls |-> <<HealthCall(stp, o)>>]

\* the entry configure_claude_desktop writes under mcpServers
anteacore_servers(stp) ==
    "anteacore-knowledge" :>
        [command |-> "python3",
         args |-> <<server_path>>,
         env |-> [ANTEACORE_API_URL |-> stp.api_url,
                  ANTEACORE_PROJECT_DIR |-> project_dir,
                  ANTEACORE_MACHINE_ID |-> stp.machine_id]]

\* the configuration configure_claude_desktop starts from
loaded_config(f) == IF f.exists THEN f.data ELSE EmptyDict

\* configure_claude_desktop raises: json.load on a file that is no JSON,
\* self.machine_id not set, .update on an mcpServers that is no object
configure_raises(f, stp) ==
    \/ f.exists /\ ~f.json_ok
    \/ stp.machine_id = NoneVal
    \/ /\ "mcpServers" \in DOMAIN loaded_config(f)
       /\ ~is_mapping(loaded_config(f).mcpServers)

\* a configuration written from scratch, with the launch entry only
configure_claude_desktop_afresh(f, stp) ==
    IF configure_raises(f, stp) THEN [raised |-> TRUE, file |-> f]
    ELSE [raised |-> FALSE, file |-> JsonFile([mcpServers |-> anteacore_servers(stp)])]

\* configure_claude_desktop: load the configuration or start from {}, add
\* mcpServers if missing, update it with the launch entry, write the file
configure_claude_desktop(f, stp) ==
    IF configure_raises(f, stp) THEN [raised |-> TRUE, file |-> f]
    ELSE LET config == loaded_config(f)
             servers == Get(config, "mcpServers", EmptyDict)
         IN  [raised |-> FALSE,
              file |-> JsonFile(("mcpServers" :> (anteacore_servers(stp) @@ servers))
                                    @@ config)]

\* create_project_config: the project configuration it dumps
project_config ==
    [project_name |-> "project", languages |-> <<>>, frameworks |-> <<>>,
     contribution_settings |->
        [auto_suggest |-> TRUE, share_patterns |-> TRUE, anonymize |-> TRUE]]

\* create_project_config: an existing .gitignore gets the line .anteacore/ once
gitignore_after(g) == IF g = "without" THEN "with" ELSE g

\* run_setup: the five steps in order, stopping at the first that returns
\* False; an exception of configure_claude_desktop leaves run_setup
run_setup(stp, idf, cfg, factors, t, o) ==
    LET s1 == setup_machine_identity(stp, idf, factors, t)
        s2 == verify_network_access(s1.setup, o)
        s4 == configure_claude_desktop(cfg, s1.setup)
        base == [raised |-> FALSE, value |-> FALSE, setup |-> s1.setup,
                 identity |-> s1.file, calls |-> s2.calls, installed |-> FALSE,
                 hostConfig |-> cfg, project |-> FALSE,
                 steps |-> <<"identity", "network">>]
    IN  CASE ~s2.ok    -> base
          [] s4.raised -> [base EXCEPT !.raised = TRUE, !.installed = TRUE,
                                       !.steps = <<"identity", "network", "install", "host">>]
          [] OTHER     -> [base EXCEPT !.value = TRUE, !.installed = TRUE,
                                       !.hostConfig = s4.file, !.project = TRUE,
                                       !.steps = <<"identity", "network", "install", "host",
                                                   "project">>]

\* what the steps of the setup leave alone
setupFrame == <<env, server, storeVars, raceVars>>

\* setup.setup_machine_identity()
SetupMachineIdentity ==
    /\ LET r == setup_machine_identity(setup, identity, env, now) IN
        /\ identity' = r.file
        /\ setup' = r.setup
        /\ ret' = Returned("setup_machine_identity", r.ok)
    /\ sent' = <<>>
    /\ UNCHANGED <<hostConfig, installed, project, gitignore, setupFrame>>

\* setup.verify_network_access(), the API answering with one of O
VerifyNetworkAccess(O) ==
    /\ \E o \in O :
         LET r == verify_network_access(setup, o) IN
            /\ sent' = r.calls
            /\ ret' = Returned("verify_network_access", r.ok)
    /\ UNCHANGED <<setup, identity, hostConfig, installed, project, gitignore, setupFrame>>

\* setup.install_mcp_servers(): the server file is copied into the project
InstallMcpServers ==
    /\ installed' = TRUE
    /\ ret' = Returned("install_mcp_servers", TRUE)
    /\ sent' = <<>>
    /\ UNCHANGED <<setup, identity, hostConfig, project, gitignore, setupFrame>>

\* setup.configure_claude_desktop()
ConfigureClaudeDesktop ==
    /\ LET r == configure_claude_desktop(hostConfig, setup) IN
        /\ hostConfig' = r.file
        /\ ret' = IF r.raised THEN Raised("configure_claude_desktop")
                  ELSE Returned("configure_claude_desktop", TRUE)
    /\ sent' = <<>>
    /\ UNCHANGED <<setup, identity, installed, project, gitignore, setupFrame>>

\* setup.create_project_config()
CreateProjectConfig ==
    /\ project' = JsonFile(project_config)
    /\ gitignore' = gitignore_after(gitignore)
    /\ ret' = Returned("create_project_config", TRUE)
    /\ sent' = <<>>
    /\ UNCHANGED <<setup, identity, hostConfig, installed, setupFrame>>

\* setup.run_setup(), the API answering the health check with one of O
RunSetup(O) ==
    /\ \E o \in O :
         LET r == run_setup(setup, identity, hostConfig, env, now, o) IN
            /\ setup' = r.setup
            /\ identity' = r.identity
            /\ sent' = r.calls
            /\ installed' = (installed \/ r.installed)
            /\ hostConfig' = r.hostConfig
            /\ project' = IF r.project THEN JsonFile(project_config) ELSE project
            /\ gitignore' = IF r.project THEN gitignore_after(gitignore) ELSE gitignore
            /\ ret' = [op |-> "run_setup", raised |-> r.raised,
                       value |-> IF r.raised THEN NoneVal ELSE r.value, steps |-> r.steps]
    /\ UNCHANGED setupFrame

\* ------------------------------------------------------- specifications

\* no setup has run: no host configuration, nothing installed
SetupAtStart ==
    /\ setup = NoSetup
    /\ hostConfig = NoFile
    /\ installed = FALSE
    /\ project = NoFile
    /\ gitignore = "absent"

\* session files found at start: none, or one that is no session
InitialFiles ==
    { NoFile,
      GarbledFile,
      JsonFile([created_at |-> isoformat(0), submission_count |-> 1]),
      JsonFile([session_id |-> 0, submission_count |-> 1]),
      JsonFile([session_id |-> 0, created_at |-> [text |-> "yesterday"]]) }

Init ==
    /\ now = 0
    /\ file \in InitialFiles
    /\ born = <<>>
    /\ client = NoClient
    /\ ret = Returned("start", NoneVal)
    /\ sent = <<>>
    /\ loaded = NoneVal
    /\ clearedIds = {}
    /\ clearRuns = 0
    /\ env = EnvA
    /\ identity = NoFile
    /\ server = NoServer
    /\ pc = [p \in Procs |-> "idle"]
    /\ local = [p \in Procs |-> NoneVal]
    /\ seen = [p \in Procs |-> -1]
    /\ SetupAtStart
    /\ count0 = 0
    /\ perm = "none"

\* the operations of the client, the server answering with one of O
ClientNext(O) ==
    \/ TestConnection(O)
    \/ ActivatePrivilegedMode(O)
    \/ SearchKnowledge(O)
    \/ AddPattern(O)
    \/ GetSuggestions(O)
    \/ ReportIssue(O)
    \/ GetStats(O)

\* the session store, the clock and a client; the disk works (every write of
\* the session file succeeds) and so does the server
Next ==
    \/ LoadOrCreateSession("ok")
    \/ IncrementSubmissionCount("ok", "ok")
    \/ ClearSession
    \/ Tick
    \/ \E t \in {NoneStr, "tokA"} : Construct(t, "ok")
    \/ ClientNext({SearchOk})

Spec == Init /\ [][Next]_vars

\* the session store when the disk may fail at any step of any write
NextDiskFail ==
    \/ \E d \in DiskOutcomes : LoadOrCreateSession(d)
    \/ \E d1, d2 \in DiskOutcomes : IncrementSubmissionCount(d1, d2)
    \/ ClearSession
    \/ Tick
    \/ \E t \in {NoneStr, "tokA"}, d \in DiskOutcomes : Construct(t, d)

SpecDiskFail == Init /\ [][NextDiskFail]_vars

\* a client is constructed and used; the transport may fail and the server
\* may answer anything
NextClient ==
    \/ \E t \in {NoneStr, "tokA"} : Construct(t, "ok")
    \/ ClientNext(HttpOutcomes)

SpecClient == Init /\ [][NextClient]_vars

\* no session yet, no client, no process running
StoreAtStart ==
    /\ now = 0
    /\ file = NoFile
    /\ born = <<>>
    /\ client = NoClient
    /\ ret = Returned("start", NoneVal)
    /\ sent = <<>>
    /\ loaded = NoneVal
    /\ clearedIds = {}
    /\ clearRuns = 0
    /\ pc = [p \in Procs |-> "idle"]
    /\ local = [p \in Procs |-> NoneVal]
    /\ seen = [p \in Procs |-> -1]
    /\ count0 = 0
    /\ perm = "none"

\* identity.json as found: absent, no JSON, JSON without a machine_id, written
\* on this machine or on another
InitialIdentities ==
    { NoFile,
      GarbledFile,
      JsonFile([version |-> "0.1.0"]),
      IdentityFile(EnvA),
      IdentityFile(EnvB) }

\* two processes start on a stored session, created now, that counts count0
InitRace ==
    /\ now = 0
    /\ count0 \in 0..MaxCount
    /\ perm = "0600"
    /\ file = JsonFile(to_dict([AnonymousSession(1, 0) EXCEPT !.submission_count = count0]))
    /\ born = <<0>>
    /\ client = NoClient
    /\ ret = Returned("start", NoneVal)
    /\ sent = <<>>
    /\ loaded = NoneVal
    /\ clearedIds = {}
    /\ clearRuns = 0
    /\ env = EnvA
    /\ identity = NoFile
    /\ server = NoServer
    /\ pc = [p \in Procs |-> "idle"]
    /\ local = [p \in Procs |-> NoneVal]
    /\ seen = [p \in Procs |-> -1]
    /\ SetupAtStart

\* the steps of the processes interleave in any order
NextRace ==
    \E p \in Procs : RaceLoad(p) \/ RaceAdd(p) \/ RaceOpen(p) \/ RaceDump(p) \/ RaceChmod(p)

SpecRace == InitRace /\ [][NextRace]_vars

\* the machine identity over reconfigurations of the machine, and a dispatcher
InitIdentity ==
    /\ StoreAtStart
    /\ SetupAtStart
    /\ env \in Envs
    /\ identity \in InitialIdentities
    /\ server = NoServer

NextIdentity ==
    \/ GetMachineId
    \/ Reconfigure
    \/ ServerConstruct
    \/ CallTool(FewOutcomes, FewInvocations)

SpecIdentity == InitIdentity /\ [][NextIdentity]_vars

\* the dispatcher on a machine whose identity file is absent, garbled or in place
InitServer ==
    /\ StoreAtStart
    /\ SetupAtStart
    /\ env = EnvA
    /\ identity \in {NoFile, GarbledFile, IdentityFile(EnvA)}
    /\ server = NoServer

NextServer ==
    \/ ServerConstruct
    \/ CallTool(ServerOutcomes, Invocations)

SpecServer == InitServer /\ [][NextServer]_vars

\* a client and a dispatcher side by side
InitCalls ==
    /\ StoreAtStart
    /\ SetupAtStart
    /\ env = EnvA
    /\ identity = IdentityFile(EnvA)
    /\ server = NoServer

NextCalls ==
    \/ \E t \in {NoneStr, "tokA"} : Construct(t, "ok")
    \/ ClientNext(FewOutcomes)
    \/ ServerConstruct
    \/ CallTool(FewOutcomes, FewInvocations)

SpecCalls == InitCalls /\ [][NextCalls]_vars

\* everything that sends requests: the client, quick_mcp_call, the dispatcher
\* and the health check of the setup
NextRequests ==
    \/ \E t \in {NoneStr, "tokA"} : Construct(t, "ok")
    \/ ClientNext(FewOutcomes)
    \/ QuickMcpCall(FewOutcomes)
    \/ ServerConstruct
    \/ CallTool(FewOutcomes, FewInvocations)
    \/ SetupMachineIdentity
    \/ VerifyNetworkAccess(FewOutcomes)

SpecRequests == InitCalls /\ [][NextRequests]_vars

\* no session file yet: the processes create it
InitPerm ==
    /\ StoreAtStart
    /\ SetupAtStart
    /\ env = EnvA
    /\ identity = NoFile
    /\ server = NoServer

SpecPerm == InitPerm /\ [][NextRace]_vars

\* host configurations found at start: none, no JSON, empty, with settings and
\* servers of other tools, with an mcpServers that is null, with an older entry
InitialConfigs ==
    { NoFile,
      GarbledFile,
      JsonFile(EmptyDict),
      JsonFile([theme |-> "dark"]),
      JsonFile([theme |-> "dark", mcpServers |-> ("other" :> [command |-> "node"])]),
      JsonFile([mcpServers |-> Null]),
      JsonFile([theme |-> "dark",
                mcpServers |-> ("other" :> [command |-> "node"])
                                  @@ ("anteacore-knowledge" :> [command |-> "python2"])]) }

\* the setup routine, step by step or as a whole
InitSetup ==
    /\ StoreAtStart
    /\ setup = NoSetup
    /\ hostConfig \in InitialConfigs
    /\ installed = FALSE
    /\ project = NoFile
    /\ gitignore \in {"absent", "without", "with"}
    /\ env = EnvA
    /\ identity \in {NoFile, GarbledFile, IdentityFile(EnvB)}
    /\ server = NoServer

NextSetup ==
    \/ SetupMachineIdentity
    \/ VerifyNetworkAccess(FewOutcomes)
    \/ InstallMcpServers
    \/ ConfigureClaudeDesktop
    \/ CreateProjectConfig
    \/ RunSetup(FewOutcomes)

SpecSetup == InitSetup /\ [][NextSetup]_vars

\* ---------------------------------------------------------------- claims

ClientOps ==
    {"test_connection", "activate_privileged_mode", "search_knowledge", "add_pattern",
     "get_suggestions", "report_issue", "get_stats"}

HasError(r) == ~r.raised /\ "error" \in DOMAIN r.value

Is2xx(o) == ~o.raised /\ o.status >= 200 /\ o.status <= 299

\* the search call of the last report_issue succeeded with results
SearchSucceeded ==
    /\ ret.op = "report_issue"
    /\ Is2xx(sent[1].outcome)
    /\ sent[1].outcome.json_ok
    /\ "results" \in DOMAIN sent[1].outcome.data

\* C1: whenever an HTTP call of a public client operation fails with a
\* transport error, the operation returns a mapping with the key error and
\* raises nothing.
C1_TransportErrorYieldsError ==
    (ret.op \in ClientOps /\ \E i \in DOMAIN sent : sent[i].outcome.raised)
        => HasError(ret)

\* C2: whenever an HTTP call of a client operation is answered with a non-2xx
\* status (the submit call of report_issue excepted), the operation returns a
\* mapping with the key error.
C2_BadStatusYieldsError ==
    (/\ ret.op \in ClientOps
     /\ \E i \in DOMAIN sent :
            /\ ~sent[i].outcome.raised
            /\ ~Is2xx(sent[i].outcome)
            /\ ~(ret.op = "report_issue" /\ i = 2))
        => HasError(ret)

\* C3: report_issue whose search succeeds with N results and whose submit is
\* answered with a status other than 200 and 201 returns exactly
\* existing_solutions = those N results and issue_reported = false: no error
\* key, no exception.
C3_SubmitRejectedDegrades ==
    (/\ SearchSucceeded
     /\ ~sent[2].outcome.raised
     /\ sent[2].outcome.status \notin {200, 201})
        => /\ ~ret.raised
           /\ ret.value = [existing_solutions |-> sent[1].outcome.data.results,
                           issue_reported |-> FALSE]

C3_Witness ==
    /\ SearchSucceeded
    /\ sent[2].outcome = Response(500, [detail |-> "Internal Server Error"])
    /\ Len(ret.value.existing_solutions) = 2
    /\ ret.value.issue_reported = FALSE

\* C4: report_issue whose search succeeds with results and whose submit fails
\* with a transport error still returns the search results as
\* existing_solutions, with issue_reported = false.
C4_SubmitTransportErrorKeepsResults ==
    (SearchSucceeded /\ sent[2].outcome.raised)
        => /\ ~ret.raised
           /\ "existing_solutions" \in DOMAIN ret.value
           /\ "issue_reported" \in DOMAIN ret.value
           /\ ret.value.existing_solutions = sent[1].outcome.data.results
           /\ ret.value.issue_reported = FALSE

\* C5: with no clear_session in between, a load made no later than 24 hours
\* after the creation of the session an earlier load returned returns the same
\* session_id and a submission_count that is not smaller.
C5_SessionStableWithinWindow ==
    [][(/\ loaded # NoneVal
        /\ loaded' # NoneVal
        /\ now' <= loaded.created_at + SessionTTLHours)
           => /\ loaded'.session_id = loaded.session_id
              /\ loaded'.submission_count >= loaded.submission_count]_vars

C5_Witness ==
    /\ ret.op = "load_or_create_session"
    /\ ret.value = loaded
    /\ loaded.submission_count = 2
    /\ now = loaded.created_at + SessionTTLHours

\* the file holds a session created more than 24 hours ago
StoredExpired ==
    /\ file.exists
    /\ file.json_ok
    /\ {"session_id", "created_at"} \subseteq DOMAIN file.data
    /\ DOMAIN file.data.created_at = {"iso"}
    /\ now - file.data.created_at.iso > 24

\* this step is a call of load_or_create_session
LoadStep == now' = now /\ ret'.op = "load_or_create_session"

\* C6: load_or_create_session on a file holding a session created more than 24
\* hours ago returns a session with another session_id and submission_count 0
\* and overwrites the file with it.
C6_ExpiredSessionReplaced ==
    [][(StoredExpired /\ LoadStep)
           => /\ ~ret'.raised
              /\ ret'.value.session_id # file.data.session_id
              /\ ret'.value.submission_count = 0
              /\ file' = JsonFile(to_dict(ret'.value))]_vars

C6_Witness ==
    /\ ret.op = "load_or_create_session"
    /\ ~client.constructed
    /\ clearedIds = {}
    /\ ret.value.session_id = 2
    /\ ret.value.submission_count = 0
    /\ born = <<0, 32>>
    /\ file = JsonFile(to_dict(ret.value))

\* C7: every request a client sends carries the X-Session-ID of a session
\* that is not older than 24 hours when the request is sent.
C7_NoRequestAfterExpiry ==
    \A i \in DOMAIN sent :
        sent[i].at <= born[sent[i].headers["X-Session-ID"]] + SessionTTLHours

\* C8: load_or_create_session returns a session and raises nothing, also
\* when writing the session file fails.
C8_LoadNeverRaises ==
    ret.op = "load_or_create_session" => ~ret.raised

\* the file is absent, is no JSON, or lacks session_id or created_at
StoredUnparsable ==
    \/ ~file.exists
    \/ ~file.json_ok
    \/ "session_id" \notin DOMAIN file.data
    \/ "created_at" \notin DOMAIN file.data

\* C9: load_or_create_session on an absent or unparsable file raises nothing,
\* returns a session with an identifier never used before and
\* submission_count 0, and overwrites the file with it.
C9_UnparsableFileReplaced ==
    [][(StoredUnparsable /\ LoadStep)
           => /\ ~ret'.raised
              /\ ret'.value.session_id \notin (1..uuids) \cup StoredIds(file)
              /\ ret'.value.submission_count = 0
              /\ ret'.value.created_at = now
              /\ file' = JsonFile(to_dict(ret'.value))]_vars

C9_Witness ==
    /\ ret.op = "load_or_create_session"
    /\ ~client.constructed
    /\ clearedIds = {}
    /\ uuids = 1
    /\ ret.value = AnonymousSession(1, 0)
    /\ file = JsonFile(to_dict(ret.value))

\* C10: clear_session never raises and leaves no session file, however often
\* it is called in a row and whether or not a file existed; no later
\* load_or_create_session returns the identifier of a cleared session.
C10_ClearIdempotent ==
    /\ ret.op = "clear_session" => (~ret.raised /\ ~file.exists)
    /\ (ret.op = "load_or_create_session" /\ ~ret.raised)
           => ret.value.session_id \notin clearedIds

C10_Witness ==
    /\ ret.op = "clear_session"
    /\ clearRuns = 2
    /\ clearedIds = {1}
    /\ ~file.exists

\* the two processes have finished their increment_submission_count()
AllDone == \A p \in Procs : pc[p] = "done"

\* every process read the stored session before any of them wrote it back
AllReadFirst ==
    \A p \in Procs :
        /\ local[p] # NoneVal
        /\ local[p].session_id = 1
        /\ seen[p] = count0

\* C11: when the processes call increment_submission_count() concurrently on
\* the same unexpired session that counts c, and each reads the file before any
\* writes it, then after all have finished the file counts c + 1: all updates
\* but one are lost (the witness shows this interleaving is reachable)
C11_LostUpdate ==
    (AllDone /\ AllReadFirst) =>
        /\ file = JsonFile(to_dict(local[1]))
        /\ file.data.submission_count = count0 + 1

C11_Witness ==
    /\ AllDone
    /\ AllReadFirst
    /\ file.json_ok
    /\ file.data.session_id = 1
    /\ file.data.submission_count = count0 + 1
    /\ file.data.submission_count < count0 + NumProcs

\* C12: whatever identity.json held before, the identifier get_machine_id
\* returns and the X-Machine-ID the dispatcher attaches to its requests equal
\* generate_machine_id() of the current environment
C12_MachineIdOfCurrentEnv ==
    /\ (ret.op = "get_machine_id" /\ ~ret.raised) => ret.value = generate_machine_id(env)
    /\ ret.op = "handle_call_tool" =>
          \A i \in 1..Len(sent) : sent[i].headers["X-Machine-ID"] = generate_machine_id(env)

\* the last operation was handle_call_tool for this tool, its arguments a mapping
ToolCalled(tool) ==
    /\ ret.op = "handle_call_tool"
    /\ ret.tool = tool
    /\ is_mapping(ret.arguments)

\* the arguments hold a string under this key
HasStr(k) == k \in DOMAIN ret.arguments /\ is_str(ret.arguments[k])

\* the result is a validation error and nothing was sent
RejectedLocally ==
    /\ ~ret.raised
    /\ "error" \in DOMAIN ret.value
    /\ "code" \in DOMAIN ret.value
    /\ ret.value.code = "VALIDATION_ERROR"
    /\ sent = <<>>

\* C13: add_pattern with a problem string of fewer than 20 characters after
\* trimming returns {error, code: "VALIDATION_ERROR"} and sends no HTTP request
C13_ShortProblemRejected ==
    (/\ ToolCalled("add_pattern")
     /\ HasStr("problem")
     /\ ret.arguments.problem.stripped < SchemaMinProblem) => RejectedLocally

C13_Witness ==
    /\ ToolCalled("add_pattern")
    /\ ret.arguments =
          [name |-> Str(8, 8), category |-> Str(7, 7), problem |-> Str(25, 19),
           solution |-> Str(30, 30)]
    /\ RejectedLocally

\* the six tools the dispatcher offers
SixTools ==
    {"search_knowledge", "add_pattern", "report_issue", "get_suggestions",
     "validate_pattern", "get_my_contributions"}

\* C14: a tool name outside the six allowed tools yields a mapping with error
\* and allowed_tools listing exactly those six, and no HTTP request
C14_UnknownToolRefused ==
    (ret.op = "handle_call_tool" /\ ret.tool \notin SixTools) =>
        /\ ~ret.raised
        /\ "error" \in DOMAIN ret.value
        /\ "allowed_tools" \in DOMAIN ret.value
        /\ ret.value.allowed_tools = SixTools
        /\ sent = <<>>

C14_Witness ==
    /\ ret.op = "handle_call_tool"
    /\ ret.tool = "get_stats"
    /\ ret.value.allowed_tools = SixTools
    /\ sent = <<>>

\* C15: add_pattern with a solution string of fewer than 30 characters after
\* trimming returns {error, code: "VALIDATION_ERROR"} and sends no HTTP request
C15_ShortSolutionRejected ==
    (/\ ToolCalled("add_pattern")
     /\ HasStr("solution")
     /\ ret.arguments.solution.stripped < SchemaMinSolution) => RejectedLocally

\* C16: add_pattern without one of the keys name, category, problem, solution
\* returns {error, code: "VALIDATION_ERROR"} and sends no HTTP request
C16_MissingFieldRejected ==
    (/\ ToolCalled("add_pattern")
     /\ \E k \in {"name", "category", "problem", "solution"} : k \notin DOMAIN ret.arguments)
        => RejectedLocally

\* the call was refused by a local shape or length check
RefusedByLocalCheck ==
    \/ /\ ToolCalled("add_pattern")
       /\ ~validate_content(ret.arguments).is_valid
    \/ /\ ToolCalled("report_issue")
       /\ is_str(Get(ret.arguments, "issue", Str(0, 0)))
       /\ Get(ret.arguments, "issue", Str(0, 0)).stripped < MinIssueLen

\* C17: every local rejection, the content checks of add_pattern and the
\* length check of report_issue, returns error with code "VALIDATION_ERROR"
\* and sends no HTTP request
C17_LocalRejectionsUniform == RefusedByLocalCheck => RejectedLocally

\* add_pattern was called with arguments that pass validation
ValidAddPattern ==
    /\ ToolCalled("add_pattern")
    /\ validate_content(ret.arguments).is_valid

\* the result reports an error under this code and no success
ErrorCoded(code) ==
    /\ "error" \in DOMAIN ret.value
    /\ "success" \notin DOMAIN ret.value
    /\ "code" \in DOMAIN ret.value
    /\ ret.value.code = code

\* the result reports success with the pattern_id and status of the answer
SuccessFrom(o) ==
    /\ "success" \in DOMAIN ret.value
    /\ ret.value.success = TRUE
    /\ "error" \notin DOMAIN ret.value
    /\ ret.value.pattern_id = Get(o.data, "pattern_id", NoneStr)
    /\ ret.value.status = Get(o.data, "status", "pending_review")

\* C18 as stated: with valid arguments the status of the single POST decides
\* the result: 200 / 201 success with the server's pattern_id and status, 429
\* RATE_LIMIT, any other status API_ERROR, never success and error together
C18_StatusDecidesResult ==
    ValidAddPattern =>
        /\ Len(sent) = 1
        /\ ~sent[1].outcome.raised =>
              CASE sent[1].outcome.status \in {200, 201} -> SuccessFrom(sent[1].outcome)
                [] sent[1].outcome.status = 429          -> ErrorCoded("RATE_LIMIT")
                [] OTHER                                 -> ErrorCoded("API_ERROR")
        /\ ~("success" \in DOMAIN ret.value /\ "error" \in DOMAIN ret.value)

\* the result reports an error without a code and no success
ErrorUncoded ==
    /\ "error" \in DOMAIN ret.value
    /\ "success" \notin DOMAIN ret.value
    /\ "code" \notin DOMAIN ret.value

\* C18 amended: with valid arguments there is a single POST; 200 / 201 with a
\* JSON body gives success with the body's pattern_id (None if absent) and
\* status ("pending_review" if absent); 200 / 201 with a body that is no JSON,
\* or a transport failure, gives error without a code; 429 gives RATE_LIMIT,
\* any other status API_ERROR; never success and error together
C18_StatusAndBodyDecideResult ==
    ValidAddPattern =>
        /\ Len(sent) = 1
        /\ sent[1].method = "POST"
        /\ CASE sent[1].outcome.raised -> ErrorUncoded
             [] sent[1].outcome.status \in {200, 201} /\ ~sent[1].outcome.json_ok
                                       -> ErrorUncoded
             [] sent[1].outcome.status \in {200, 201}
                                       -> SuccessFrom(sent[1].outcome)
             [] sent[1].outcome.status = 429
                                       -> ErrorCoded("RATE_LIMIT")
             [] OTHER                  -> ErrorCoded("API_ERROR")
        /\ ~("success" \in DOMAIN ret.value /\ "error" \in DOMAIN ret.value)

C18_Witness ==
    /\ ValidAddPattern
    /\ sent[1].outcome = NotJson(200)
    /\ ErrorUncoded

\* C19: handle_call_tool never raises, whatever the tool name, the arguments
\* (keys missing, values of the wrong type, no mapping at all) and the answer
\* of the API; an exception caught by the dispatcher itself is reported as a
\* mapping with error and with tool, the name of the tool invoked
C19_DispatcherNeverRaises ==
    ret.op = "handle_call_tool" =>
        /\ ~ret.raised
        /\ ret.caught =>
              /\ "error" \in DOMAIN ret.value
              /\ "tool" \in DOMAIN ret.value
              /\ ret.value.tool = ret.tool

C19_Witness ==
    /\ ret.op = "handle_call_tool"
    /\ ret.caught
    /\ ~ret.raised
    /\ ret.value.tool = ret.tool

\* the i-th call of the last operation was a POST to this path
PostTo(i, path) == sent[i].method = "POST" /\ sent[i].url[2] = path

\* C20: no invocation issues more than two HTTP calls: report_issue of the
\* client issues the search POST and then the submit POST, once each, whatever
\* the search outcome; every other client operation and every tool invocation
\* of the dispatcher issues at most one call
C20_AtMostTwoCalls ==
    /\ Len(sent) <= 2
    /\ ret.op = "report_issue" =>
          /\ Len(sent) = 2
          /\ PostTo(1, "/api/client/knowledge/search")
          /\ PostTo(2, "/api/client/issues")
    /\ ret.op \in (ClientOps \ {"report_issue"}) => Len(sent) <= 1
    /\ ret.op = "handle_call_tool" => Len(sent) <= 1

C20_Witness ==
    /\ ret.op = "report_issue"
    /\ Len(sent) = 2
    /\ sent[1].outcome.raised
    /\ PostTo(2, "/api/client/issues")

\* the headers name an identity: a machine, or an anonymous session
HasIdentity(h) ==
    \/ "X-Machine-ID" \in DOMAIN h
    \/ /\ "X-Session-ID" \in DOMAIN h
       /\ "X-Anonymous" \in DOMAIN h
       /\ h["X-Anonymous"] = "true"

\* C21: every HTTP request, of the client, of the dispatcher and of the health
\* check of the setup, carries X-Machine-ID or X-Session-ID with
\* X-Anonymous: true, and X-Client-Version and User-Agent, and never both
\* X-Machine-ID and X-Session-ID
C21_IdentityHeaders ==
    \A i \in 1..Len(sent) :
        /\ HasIdentity(sent[i].headers)
        /\ "X-Client-Version" \in DOMAIN sent[i].headers
        /\ "User-Agent" \in DOMAIN sent[i].headers
        /\ ~({"X-Machine-ID", "X-Session-ID"} \subseteq DOMAIN sent[i].headers)

\* the activation was answered 200 with success true and a token
ActivationAnswered(o) ==
    /\ ~o.raised
    /\ o.status = 200
    /\ o.json_ok
    /\ Get(o.data, "success", FALSE) = TRUE
    /\ "token" \in DOMAIN o.data

\* the X-Privileged-Token header of a client, if it has one, is its privileged_token
TokenHeaderInStep(c) ==
    "X-Privileged-Token" \in DOMAIN c.headers =>
        c.headers["X-Privileged-Token"] = c.privileged_token

\* C22: the X-Privileged-Token header of a client changes only on an
\* activate_privileged_mode answered 200 with success true and a token, after
\* which the client carries the returned token; any other activation and any
\* other operation leave privileged_token and the headers as they were; the
\* header, when present, always equals privileged_token
C22_TokenChangesOnlyOnActivation ==
    [][ /\ TokenHeaderInStep(client')
        /\ (ret'.op = "activate_privileged_mode" /\ ActivationAnswered(sent'[1].outcome)) =>
              /\ client'.privileged_token = sent'[1].outcome.data.token
              /\ "X-Privileged-Token" \in DOMAIN client'.headers
              /\ client'.headers["X-Privileged-Token"] = sent'[1].outcome.data.token
        /\ (ret'.op = "activate_privileged_mode" /\ ~ActivationAnswered(sent'[1].outcome)) =>
              client' = client
        /\ ret'.op \in (ClientOps \ {"activate_privileged_mode"}) => client' = client
      ]_vars

\* the search path of the API
SearchPath == "/api/client/knowledge/search"

\* C23: get_suggestions and validate_pattern of the dispatcher issue exactly
\* one POST, to /api/client/knowledge/search, whose body is query = the
\* context (the pattern_description) argument and limit = 5 (3) and nothing else
C23_ReducedSearches ==
    /\ ToolCalled("get_suggestions") =>
          /\ Len(sent) = 1
          /\ PostTo(1, SearchPath)
          /\ sent[1].json =
                [query |-> Get(ret.arguments, "context", Str(0, 0)), limit |-> Num(5)]
    /\ ToolCalled("validate_pattern") =>
          /\ Len(sent) = 1
          /\ PostTo(1, SearchPath)
          /\ sent[1].json =
                [query |-> Get(ret.arguments, "pattern_description", Str(0, 0)),
                 limit |-> Num(3)]

C23_Witness ==
    /\ ToolCalled("get_suggestions")
    /\ ret.arguments = [context |-> Str(12, 12), limit |-> Num(40)]
    /\ sent[1].json = [query |-> Str(12, 12), limit |-> Num(5)]

\* C24: constructing the dispatcher without an identity file raises and leaves
\* no dispatcher, every request of a dispatcher carries a machine identity,
\* and get_machine_id on a missing or corrupt identity file regenerates the
\* file and returns without raising
C24_MissingIdentityFatalForDispatcher ==
    [][ /\ (ret'.op = "SecureKnowledgeServer" /\ ~identity.exists) =>
              /\ ret'.raised
              /\ server' = server
        /\ ret'.op = "handle_call_tool" =>
              /\ server.constructed
              /\ \A i \in 1..Len(sent') :
                    /\ "X-Machine-ID" \in DOMAIN sent'[i].headers
                    /\ sent'[i].headers["X-Machine-ID"] # NoneVal
        /\ (ret'.op = "get_machine_id" /\ ~(identity.exists /\ identity.json_ok)) =>
              /\ ~ret'.raised
              /\ identity'.exists
              /\ identity'.json_ok
              /\ identity'.data.machine_id = generate_machine_id(env)
              /\ ret'.value = generate_machine_id(env)
      ]_vars

C24_Witness ==
    /\ ret.op = "SecureKnowledgeServer"
    /\ ret.raised
    /\ ~identity.exists
    /\ ~server.constructed

\* C25: whenever the session file exists with content, its permission bits
\* are 0600, the states between json.dump and os.chmod included
C25_AlwaysOwnerOnly == (file.exists /\ file.json_ok) => perm = "0600"

\* every call of the last operation was answered 200 with a JSON body
HealthyApi == \A i \in 1..Len(sent) : sent[i].outcome = SearchOk

\* C26: the tools the self-test calls through quick_mcp_call on
\* anteacore-knowledge, search and validate_pattern, return no error when the
\* API is reachable and healthy
C26_SelfTestToolsDispatched ==
    (/\ ret.op = "quick_mcp_call"
     /\ ret.server = "anteacore-knowledge"
     /\ ret.tool \in {"search", "validate_pattern"}
     /\ HealthyApi) => "error" \notin DOMAIN ret.value

\* the mcpServers of a configuration file
ServersOf(f) == Get(loaded_config(f), "mcpServers", EmptyDict)

\* C27: configure_claude_desktop keeps every top-level key and every
\* mcpServers entry other than anteacore-knowledge as it was, writes the
\* anteacore-knowledge entry with command, args and env (ANTEACORE_API_URL,
\* ANTEACORE_PROJECT_DIR), and a second run changes nothing
C27_ConfigureOnlyAugments ==
    [][ (ret'.op = "configure_claude_desktop" /\ ~ret'.raised) =>
          /\ hostConfig'.exists /\ hostConfig'.json_ok
          /\ \A k \in DOMAIN loaded_config(hostConfig) \ {"mcpServers"} :
                /\ k \in DOMAIN hostConfig'.data
                /\ hostConfig'.data[k] = loaded_config(hostConfig)[k]
          /\ \A n \in DOMAIN ServersOf(hostConfig) \ {"anteacore-knowledge"} :
                /\ n \in DOMAIN ServersOf(hostConfig')
                /\ ServersOf(hostConfig')[n] = ServersOf(hostConfig)[n]
          /\ "anteacore-knowledge" \in DOMAIN ServersOf(hostConfig')
          /\ LET e == ServersOf(hostConfig')["anteacore-knowledge"] IN
                /\ e.command = "python3"
                /\ e.args = <<server_path>>
                /\ e.env.ANTEACORE_API_URL = setup.api_url
                /\ e.env.ANTEACORE_PROJECT_DIR = project_dir
          /\ configure_claude_desktop(hostConfig', setup').file = hostConfig'
      ]_vars

C27_Witness ==
    /\ ret.op = "configure_claude_desktop"
    /\ ~ret.raised
    /\ "theme" \in DOMAIN hostConfig.data
    /\ "other" \in DOMAIN ServersOf(hostConfig)
    /\ ServersOf(hostConfig)["anteacore-knowledge"].command = "python3"

\* C28: while a process rewrites the stored, unexpired session, every
\* process that loads gets that session, and the file never holds another
C28_SessionStableUnderRace ==
    /\ \A p \in Procs : local[p] # NoneVal => local[p].session_id = 1
    /\ file.json_ok => file.data.session_id = 1

\* C29: in every add_pattern and report_issue request of the dispatcher the
\* body's machine_id is the dispatcher's own, the value of X-Machine-ID, and
\* for add_pattern client_version and ip_hash are the dispatcher's too,
\* whatever keys the arguments hold
C29_SubmitterIdentityNotForgeable ==
    /\ (ToolCalled("add_pattern") /\ sent # <<>>) =>
          /\ sent[1].json.machine_id = server.machine_id
          /\ sent[1].json.machine_id = sent[1].headers["X-Machine-ID"]
          /\ sent[1].json.client_version = server.version
          /\ sent[1].json.ip_hash = get_ip_hash(server)
    /\ (ToolCalled("report_issue") /\ sent # <<>>) =>
          /\ sent[1].json.machine_id = server.machine_id
          /\ sent[1].json.machine_id = sent[1].headers["X-Machine-ID"]

C29_Witness ==
    /\ ToolCalled("add_pattern")
    /\ sent # <<>>
    /\ "ip_hash" \in DOMAIN ret.arguments
    /\ ret.arguments.machine_id = Str(36, 36)
    /\ sent[1].json.machine_id = server.machine_id

\* the steps of run_setup, in order
SetupSteps == <<"identity", "network", "install", "host", "project">>

\* the health check was not answered 200
NetworkFailed(calls) == calls[1].outcome.raised \/ calls[1].outcome.status # 200

\* C30: run_setup takes its steps in the order identity, network, install,
\* host, project and stops at the first that fails: when the network
\* verification fails, nothing is installed, neither the host configuration
\* nor project.json is written, and the identity file of the first step stays
C30_SetupStopsAtFailedNetwork ==
    [][ ret'.op = "run_setup" =>
          /\ ret'.steps = SubSeq(SetupSteps, 1, Len(ret'.steps))
          /\ Len(sent') = 1
          /\ NetworkFailed(sent') =>
                /\ ~ret'.raised
                /\ ret'.value = FALSE
                /\ ret'.steps = <<"identity", "network">>
                /\ UNCHANGED <<installed, hostConfig, project>>
                /\ identity'.exists
                /\ identity'.json_ok
                /\ identity'.data.machine_id = generate_machine_id(env)
          /\ ~NetworkFailed(sent') => Len(ret'.steps) > 2
      ]_vars

C30_Witness ==
    /\ ret.op = "run_setup"
    /\ ~ret.raised
    /\ ret.value = FALSE
    /\ sent[1].outcome.raised
    /\ ~installed
    /\ ~project.exists
    /\ ~hostConfig.exists
    /\ identity.exists

====
